---- MODULE Spec2Model ----
(***************************************************************************)
(* Model of the wrapper layer of plywright-demo-python:                    *)
(*   tests/api/clients/api_client.py   APIClient                           *)
(*   tests/ui/pages/base_page.py       BasePage                            *)
(*   utils/logger.py                   Logger                              *)
(* Strings the code inspects character by character (URLs, endpoints) are  *)
(* sequences of one-character strings.                                     *)
(***************************************************************************)
EXTENDS Integers, Sequences, FiniteSets, TLC

VARIABLES
    \* ---- APIClient (api_client.py) ----
    base_url,      \* self.base_url
    timeout,       \* self.timeout
    headers,       \* self.session.headers: header name -> value, Absent when not set
    pooled,        \* the session's adapters hold live connections
    \* ---- the call in progress / last call ----
    pc,            \* "idle" | "inflight" (inside session.<verb>) | "built" (SpecUrl)
    verb,          \* HTTP method of the call
    endpoint,      \* the endpoint argument
    url,           \* the URL _build_url returned
    reqHeaders,    \* headers= passed in **kwargs of the call
    sentHeaders,   \* headers the request carries on the wire
    total,         \* Retry.total left for this call
    attempts,      \* connection attempts made for this call
    delivered,     \* attempts whose request reached the server
    delays,        \* sleeps before the retries of this call, in order
    result,        \* what the caller got from the last call
    log,           \* records logged by the operation in progress / last operation
    \* ---- scoped use (with APIClient(...) as c:) ----
    ctx,           \* "out" | "in": outside or inside a with block
    exitPath,      \* how the block was left
    propagated,    \* the exception the caller of the with statement sees
    \* ---- history ----
    lastOp,        \* the last operation called on the client
    closeRun,      \* number of close() calls in a row, capped
    released,      \* the client right after the first close() of the current run
    cfg0,          \* <<base_url, timeout, headers>> when the current call started
    authToken,     \* arguments of the last set_auth_header
    authReplaced,  \* the last set_auth_header overwrote the value of an earlier one
    authOverridden,\* set_header wrote Authorization after the last set_auth_header
    \* ---- Logger (logger.py) ----
    _logger,       \* Logger._logger: name of the logging.Logger object, None
    handlers,      \* logging's registry: logger name -> number of handlers attached
    level,         \* logging's registry: logger name -> level
    returned,      \* what the get_logger calls so far returned, in order
    emitted,       \* records written to the console handlers, capped
    lastLevel,     \* level of the last record logged through the facade
    \* ---- BasePage (base_page.py) ----
    pageOpen,      \* the page handle is open
    dom,           \* selector -> state of the first element it matches
    pageRet,       \* what the last BasePage call returned / raised
    pageLog,       \* records the last BasePage call logged
    shot,          \* the last take_screenshot: its argument, its result, the file written
    doc,           \* the elements of the document the page shows, in document order
    linksRet,      \* the last get_all_links: its result
    \* ---- more history of the client ----
    lastStatus,    \* status of the response the current call received last, 0 for none
    ctorArgs,      \* the arguments the client was constructed with, <<>> when not recorded
    \* ---- Helpers ----
    clock,         \* the local clock: where it started and the half seconds since
    fnCalls,       \* the last two generate_unique_filename calls: arguments, time, result
    \* ---- the fixtures of one test at a time ----
    fx,            \* the test: fixture chain, fixture requested, phase, outcome, finalizers
    res,           \* browser, context, page of the test: "none", "open" or "closed"
    closeCalls,    \* close() calls the fixtures made on each
    order,         \* the releases of the test, in order, each with what caused it
    \* ---- threads in Logger.get_logger ----
    tpc,           \* the line of logger.py each thread is at
    tname,         \* the name each thread called get_logger with
    tobs           \* what each thread received: the logger, its level and handlers then

clientVars == <<base_url, timeout, headers, pooled>>
callVars   == <<pc, verb, endpoint, url, reqHeaders, sentHeaders, total, attempts,
                delivered, delays, result, log>>
ctxVars    == <<ctx, exitPath, propagated>>
histVars   == <<lastOp, closeRun, released, cfg0, authToken, authReplaced, authOverridden>>
loggerVars == <<_logger, handlers, level, returned, emitted, lastLevel>>
pageVars   == <<pageOpen, dom, pageRet, pageLog>>
docVars    == <<shot, doc, linksRet>>
fixVars    == <<fx, res, closeCalls, order>>
threadVars == <<tpc, tname, tobs>>
restVars   == <<ctorArgs, clock, fnCalls, fixVars, threadVars>>
vars == <<clientVars, callVars, ctxVars, histVars, loggerVars, pageVars, docVars,
          restVars, lastStatus>>

None == "None"
Absent == <<>>      \* a header that is not set (header values are non-empty sequences)

\* ------------------------------------------------------------------ bounds
MaxSlashes == 2     \* leading slashes of an endpoint, trailing slashes of a base URL
MaxCloseRun == 2    \* close() calls in a row that are counted
MaxReturned == 4    \* get_logger results remembered
MaxEmitted == 3     \* console records counted

\* ------------------------------------------------------------------ strings
S_http  == <<"h","t","t","p">>
S_sep   == <<":","/","/">>
S_slash == <<"/">>

Slashes(n) == [i \in 1..n |-> "/"]

\* str.startswith(prefix)
StartsWith(s, prefix) ==
    /\ Len(s) >= Len(prefix)
    /\ SubSeq(s, 1, Len(prefix)) = prefix

\* str.lstrip('/')
RECURSIVE LStrip(_)
LStrip(s) == IF s # <<>> /\ Head(s) = "/" THEN LStrip(Tail(s)) ELSE s

\* str.rstrip('/') (used by the claims, not by the code)
RECURSIVE RStrip(_)
RStrip(s) ==
    IF s # <<>> /\ s[Len(s)] = "/" THEN RStrip(SubSeq(s, 1, Len(s) - 1)) ELSE s

Letters == {"a","b","f","h","p","s","t","x"}

\* s starts with a URL scheme: one or more letters followed by "://"
HasScheme(s) ==
    \E n \in 1..Len(s) :
        /\ \A i \in 1..n : s[i] \in Letters
        /\ StartsWith(SubSeq(s, n + 1, Len(s)), S_sep)

\* inputs
Hosts == { <<"h","t","t","p","s",":","/","/","a">>,
           <<"h","t","t","p",":","/","/","b","/","x">> }
BaseUrls == { h \o Slashes(n) : h \in Hosts, n \in 0..MaxSlashes }

Bodies == { <<"p">>,                                   \* posts
            <<"p","/","x">>,                           \* posts/x
            <<"p","/">>,                               \* posts/
            <<"h","t","t","p","b","/","x">>,           \* httpb/x, a relative name
            <<"h","t","t","p","s",":","/","/","b">>,   \* https://b
            <<"h","t","t","p",":","/","/","b","/","x">>, \* http://b/x
            <<"f","t","p",":","/","/","b">>,           \* ftp://b
            <<>> }
Endpoints == { Slashes(n) \o b : n \in 0..MaxSlashes, b \in Bodies }

\* ------------------------------------------------------------------ _build_url
\* a slip: the endpoint is joined as it is, leading slashes kept
BuildUrlKeepSlashes(b, e) ==
    IF StartsWith(e, S_http) THEN e ELSE b \o S_slash \o e

_build_url(b, e) ==
    IF StartsWith(e, S_http) THEN e ELSE b \o S_slash \o LStrip(e)

\* ------------------------------------------------------------------ APIClient data
HeaderNames == {"User-Agent", "Accept", "Authorization", "X-Custom-Header"}
NoHeaders == [k \in HeaderNames |-> Absent]

\* dict.update(d): every key of d overwrites, every other key is kept
Update(h, d) == [k \in HeaderNames |-> IF d[k] # Absent THEN d[k] ELSE h[k]]

\* headers of a fresh session, as far as the client touches them
DefaultHeaders ==
    [NoHeaders EXCEPT !["User-Agent"] = <<"Playwright-Demo/1.0">>,
                      !["Accept"] = <<"application/json">>]

ConfigBaseUrl == <<"h","t","t","p","s",":","/","/","a">>   \* config.API_BASE_URL
ConfigTimeout == 30                                          \* config.API_TIMEOUT

Total == 3               \* Retry(total=3)
BackoffFactor == 1       \* Retry(backoff_factor=1)
StatusForcelist == {429, 500, 502, 503, 504}
\* a policy that retries every verb
AllowedMethodsAny == {"GET", "PUT", "DELETE", "POST", "PATCH"}
\* the verbs a Retry built without allowed_methods retries (urllib3's default set,
\* among the client's verbs)
AllowedMethods == {"GET", "PUT", "DELETE"}

Verbs == {"GET", "POST", "PUT", "PATCH", "DELETE"}
Statuses == {200, 404} \cup StatusForcelist
\* set_auth_header arguments <<token, header_type>>; "Bearer" is the default header_type
AuthArgs == { <<"abc", "Bearer">>, <<"xyz", "Token">> }

\* constructor arguments <<base_url, timeout, headers>>
Omitted(v) == [given |-> FALSE, val |-> v]
Given(v) == [given |-> TRUE, val |-> v]
UrlB == <<"h","t","t","p",":","/","/","b">>
CtorArgs == { <<Omitted(<<>>), Omitted(0), NoHeaders>>,
              <<Given(<<>>), Given(0), NoHeaders>>,
              <<Given(UrlB), Given(5), [NoHeaders EXCEPT !["Accept"] = <<"text/xml">>]>> }

\* endpoints and per-request headers the calls are made with
CallEndpoints == { <<"/","p">>, <<"h","t","t","p","s",":","/","/","b">> }
ReqHeaderArgs == { NoHeaders,
                   [NoHeaders EXCEPT !["X-Custom-Header"] = <<"test-value">>],
                   [NoHeaders EXCEPT !["Authorization"] = <<"Basic", "creds">>] }
SetHeaderArgs == { <<"X-Custom-Header", <<"v2">> >>,
                   <<"Authorization", <<"Basic", "creds">> >> }

NoResult == [kind |-> "none", status |-> 0, exc |-> None, cause |-> None]
Response(s) == [kind |-> "response", status |-> s, exc |-> None, cause |-> None]
Raised(t, c) == [kind |-> "error", status |-> 0, exc |-> t, cause |-> c]
Rec(l, m) == [level |-> l, msg |-> m]

\* the requests.exceptions.RequestException subclasses a failed send raises
TransportErrors == {"ConnectionError", "ConnectTimeout", "ReadTimeout"}
TransportCauses == {"connect_error", "connect_timeout", "read_timeout", "reset"}

\* ------------------------------------------------------------------ __init__
\* base_url or config.API_BASE_URL: an omitted and an empty argument are both falsy
InitBaseUrl(b) == IF ~b.given \/ b.val = <<>> THEN ConfigBaseUrl ELSE b.val
\* timeout or config.API_TIMEOUT
InitTimeout(t) == IF ~t.given \/ t.val = 0 THEN ConfigTimeout ELSE t.val
InitHeaders(h) == Update(DefaultHeaders, h)

\* ------------------------------------------------------------------ initial states
LoggerNames == {"playwright-demo", "other", "api"}
\* "!!" stands for a selector the engine cannot parse
Selectors == {"h1", "a", "!!"}
ValidSelectors == {"h1", "a"}
\* "absent": the selector matches no element
ElementStates == {"absent", "hidden", "disabled", "enabled"}

ClientIdle ==
    /\ pooled = FALSE
    /\ pc = "idle" /\ verb = None /\ endpoint = <<>> /\ url = <<>>
    /\ reqHeaders = NoHeaders /\ sentHeaders = NoHeaders
    /\ total = Total /\ attempts = 0 /\ delivered = 0 /\ delays = <<>>
    /\ result = NoResult /\ log = <<>> /\ lastStatus = 0
    /\ ctx = "out" /\ exitPath = None /\ propagated = None
    /\ lastOp = "init" /\ closeRun = 0 /\ released = <<>>
    /\ authToken = Absent /\ authReplaced = FALSE /\ authOverridden = FALSE

LoggerFresh ==
    /\ _logger = None
    /\ handlers = [n \in LoggerNames |-> 0]
    /\ level = [n \in LoggerNames |-> "NOTSET"]
    /\ returned = <<>>
    /\ emitted = 0
    /\ lastLevel = None

\* a Python value with its type: str and bytes are never equal
Str(x) == [type |-> "str", val |-> x]
Bytes(x) == [type |-> "bytes", val |-> x]
NoValue == [type |-> "NoneType", val |-> None]
NoShot == [filename |-> None, returned |-> NoValue, written |-> None, raised |-> None]
NoLinks == [called |-> FALSE, value |-> <<>>, raised |-> None]

PageFresh ==
    /\ pageOpen = TRUE
    /\ dom = [s \in ValidSelectors |-> "absent"]
    /\ pageRet = [op |-> None, sel |-> None, value |-> FALSE, raised |-> None]
    /\ pageLog = <<>>
    /\ shot = NoShot
    /\ doc = <<>>
    /\ linksRet = NoLinks

\* a local time, to the second
Time(Y, M, D, h, m, sec) == [Y |-> Y, M |-> M, D |-> D, h |-> h, m |-> m, s |-> sec]
Epoch == Time(1970, 1, 1, 0, 0, 0)

\* browser -> context -> page: each fixture takes the one before it as its argument
Chain == <<"browser", "context", "page">>
Resources == {"browser", "context", "page"}

\* no test has run
FixturesFresh ==
    /\ fx = [chain |-> None, want |-> None, phase |-> "idle", outcome |-> None,
             stack |-> <<>>, log |-> None, tests |-> 0]
    /\ res = [r \in Resources |-> "none"]
    /\ closeCalls = [r \in Resources |-> 0]
    /\ order = <<>>

NumThreads == 2     \* threads that call get_logger at the same time
Threads == 1..NumThreads
NoObs == [logger |-> None, level |-> None, handlers |-> 0]

\* no thread is in get_logger
ThreadsFresh ==
    /\ tpc = [t \in Threads |-> "out"]
    /\ tname = [t \in Threads |-> None]
    /\ tobs = [t \in Threads |-> NoObs]

\* nothing recorded of the other classes
RestFresh ==
    /\ ctorArgs = <<>>
    /\ clock = [start |-> Epoch, ticks |-> 0]
    /\ fnCalls = <<>>
    /\ FixturesFresh
    /\ ThreadsFresh

\* a client built with no arguments, for the specifications of the other classes
ClientDefault ==
    /\ base_url = ConfigBaseUrl
    /\ timeout = ConfigTimeout
    /\ headers = DefaultHeaders
    /\ cfg0 = <<ConfigBaseUrl, ConfigTimeout, DefaultHeaders>>
    /\ ClientIdle

\* the client right after APIClient(base_url, timeout, headers)
Init ==
    /\ \E a \in CtorArgs :
         /\ base_url = InitBaseUrl(a[1])
         /\ timeout = InitTimeout(a[2])
         /\ headers = InitHeaders(a[3])
         /\ cfg0 = <<InitBaseUrl(a[1]), InitTimeout(a[2]), InitHeaders(a[3])>>
    /\ ClientIdle
    /\ LoggerFresh
    /\ PageFresh
    /\ RestFresh

\* ------------------------------------------------------------------ the retry policy
\* Retry._is_method_retryable
IsMethodRetryable(v) == v \in AllowedMethods

\* a policy that retries every error status
IsRetryAnyError(v, s) == IsMethodRetryable(v) /\ s >= 400

\* Retry.is_retry(method, status_code): a status of the forcelist, on a retryable verb
IsRetry(v, s) == IsMethodRetryable(v) /\ s \in StatusForcelist

\* a constant delay
BackoffFlat(n) == BackoffFactor
\* Retry.get_backoff_time with n consecutive errors in the history
GetBackoffTime(n) == IF n <= 1 THEN 0 ELSE BackoffFactor * 2 ^ (n - 1)

\* requests' merge of the session's headers with the headers of one call
MergeHeaders(h, r) == Update(h, r)

\* ------------------------------------------------------------------ get/post/put/patch/delete
\* url = self._build_url(endpoint); logger.info(...); self.session.<verb>(url, ...)
Request(v, e, rh) ==
    /\ pc = "idle"
    /\ pc' = "inflight"
    /\ verb' = v /\ endpoint' = e /\ reqHeaders' = rh
    /\ url' = _build_url(base_url, e)
    /\ sentHeaders' = MergeHeaders(headers, rh)
    /\ total' = Total /\ attempts' = 0 /\ delivered' = 0 /\ delays' = <<>>
    /\ result' = NoResult /\ lastStatus' = 0
    /\ log' = <<Rec("INFO", v)>>
    /\ lastOp' = "request" /\ closeRun' = 0 /\ released' = <<>>
    /\ cfg0' = <<base_url, timeout, headers>>
    /\ exitPath' = None /\ propagated' = None
    /\ UNCHANGED <<clientVars, ctx, authToken, authReplaced, authOverridden,
                   loggerVars, pageVars, docVars, restVars>>

\* the session sleeps and sends again (Retry.increment, Retry.sleep)
RetryAgain ==
    /\ total' = total - 1
    /\ delays' = Append(delays, GetBackoffTime(Total - total + 1))
    /\ UNCHANGED <<pc, result, log>>

\* return response, after logger.debug("Response status: ...")
ReturnResponse(s) ==
    /\ pc' = "idle"
    /\ result' = Response(s)
    /\ log' = Append(log, Rec("DEBUG", "status"))
    /\ UNCHANGED <<total, delays>>

\* a handler that logs the failure and returns None
LogAndSwallow(t, c) ==
    /\ pc' = "idle"
    /\ result' = NoResult
    /\ log' = Append(log, Rec("ERROR", "failed"))
    /\ UNCHANGED <<total, delays>>

\* except requests.exceptions.RequestException as e: logger.error(...); raise
LogAndRaise(t, c) ==
    /\ pc' = "idle"
    /\ result' = Raised(t, c)
    /\ log' = Append(log, Rec("ERROR", "failed"))
    /\ UNCHANGED <<total, delays>>

CallFrame == <<verb, endpoint, url, reqHeaders, sentHeaders>>

\* the server answers the attempt with status s
Respond(s) ==
    /\ pc = "inflight"
    /\ attempts' = attempts + 1 /\ delivered' = delivered + 1
    /\ pooled' = TRUE
    /\ lastStatus' = s
    /\ IF IsRetry(verb, s)
         THEN IF total > 0 THEN RetryAgain ELSE LogAndRaise("RetryError", "status")
         ELSE ReturnResponse(s)
    /\ UNCHANGED <<base_url, timeout, headers, CallFrame, ctxVars, histVars,
                   loggerVars, pageVars, docVars, restVars>>

\* the connection cannot be made: k is "connect_error" or "connect_timeout"
ConnectFail(k) ==
    /\ pc = "inflight"
    /\ attempts' = attempts + 1
    /\ lastStatus' = 0
    /\ IF total > 0
         THEN RetryAgain
         ELSE LogAndRaise(IF k = "connect_timeout" THEN "ConnectTimeout"
                                                   ELSE "ConnectionError", k)
    /\ UNCHANGED <<clientVars, delivered, CallFrame, ctxVars, histVars,
                   loggerVars, pageVars, docVars, restVars>>

\* the request went out and no response came: k is "read_timeout" or "reset"
ReadFail(k) ==
    /\ pc = "inflight"
    /\ attempts' = attempts + 1 /\ delivered' = delivered + 1
    /\ pooled' = TRUE
    /\ lastStatus' = 0
    /\ IF IsMethodRetryable(verb)
         THEN IF total > 0 THEN RetryAgain ELSE LogAndRaise("ConnectionError", k)
         ELSE LogAndRaise(IF k = "read_timeout" THEN "ReadTimeout"
                                                ELSE "ConnectionError", k)
    /\ UNCHANGED <<base_url, timeout, headers, CallFrame, ctxVars, histVars,
                   loggerVars, pageVars, docVars, restVars>>

\* ------------------------------------------------------------------ headers
\* f"{header_type} {token}"
AuthValue(header_type, token) == <<header_type, token>>

\* a slip: a header already set is kept (dict.setdefault)
SetItemKeep(h, k, v) == IF h[k] = Absent THEN [h EXCEPT ![k] = v] ELSE h

\* a slip: the header set becomes the one header (self.session.headers = {k: v})
SetItemAlone(h, k, v) == [NoHeaders EXCEPT ![k] = v]

\* self.session.headers[k] = v
SetItem(h, k, v) == [h EXCEPT ![k] = v]

\* the locals of the call that returned are gone
FrameGone ==
    /\ verb' = None /\ endpoint' = <<>> /\ url' = <<>>
    /\ reqHeaders' = NoHeaders /\ sentHeaders' = NoHeaders
    /\ total' = Total /\ attempts' = 0 /\ delivered' = 0 /\ delays' = <<>>
    /\ lastStatus' = 0
    /\ cfg0' = <<base_url', timeout', headers'>>

\* op is called on the client, between two requests
Called(op) ==
    /\ pc = "idle"
    /\ lastOp' = op
    /\ FrameGone
    /\ UNCHANGED <<pc, loggerVars, pageVars, docVars, restVars>>

set_auth_header(token, header_type) ==
    /\ pc = "idle"
    /\ headers' = SetItem(headers, "Authorization", AuthValue(header_type, token))
    /\ result' = NoResult
    /\ log' = <<Rec("DEBUG", "auth")>>
    /\ authReplaced' = /\ authToken \notin {Absent, AuthValue(header_type, token)}
                       /\ headers["Authorization"] = authToken
    /\ authToken' = AuthValue(header_type, token)
    /\ authOverridden' = FALSE
    /\ closeRun' = 0 /\ released' = <<>>
    /\ exitPath' = None /\ propagated' = None
    /\ UNCHANGED <<base_url, timeout, pooled, ctx>>
    /\ Called("set_auth_header")

set_header(key, value) ==
    /\ pc = "idle"
    /\ headers' = SetItem(headers, key, value)
    /\ result' = NoResult
    /\ log' = <<Rec("DEBUG", "header")>>
    /\ authOverridden' = (authOverridden \/ (key = "Authorization" /\ authToken # Absent))
    /\ closeRun' = 0 /\ released' = <<>>
    /\ exitPath' = None /\ propagated' = None
    /\ UNCHANGED <<base_url, timeout, pooled, ctx, authToken, authReplaced>>
    /\ Called("set_header")

\* ------------------------------------------------------------------ close and the scoped form
\* a session whose close fails once its pools are gone
SessionCloseOnce(p, run) == [pooled |-> FALSE, raised |-> (run > 0)]

\* requests.Session.close(): every adapter clears its pools
SessionClose(p, run) == [pooled |-> FALSE, raised |-> FALSE]

\* logger.info("Closing API client session"); self.session.close()
CloseBody ==
    LET c == SessionClose(pooled, closeRun) IN
    /\ pooled' = c.pooled
    /\ result' = IF c.raised THEN Raised("RuntimeError", "closed") ELSE NoResult
    /\ log' = <<Rec("INFO", "closing")>>
    /\ closeRun' = IF closeRun < MaxCloseRun THEN closeRun + 1 ELSE closeRun
    /\ released' = IF closeRun = 0 THEN <<c.pooled, base_url, timeout, headers>>
                                    ELSE released
    /\ UNCHANGED <<base_url, timeout, headers>>

close ==
    /\ pc = "idle"
    /\ CloseBody
    /\ exitPath' = None /\ propagated' = None
    /\ UNCHANGED <<ctx, authToken, authReplaced, authOverridden>>
    /\ Called("close")

\* __enter__: return self
Enter ==
    /\ pc = "idle"
    /\ ctx = "out"
    /\ ctx' = "in" /\ exitPath' = None /\ propagated' = None
    /\ result' = NoResult
    /\ log' = <<>>
    /\ closeRun' = 0 /\ released' = <<>>
    /\ UNCHANGED <<clientVars, authToken, authReplaced, authOverridden>>
    /\ Called("enter")

BlockExits == {"normal", "return", "exception"}
BlockErrors == {"ValueError", "ConnectionError"}

\* an exit handler that closes only when the block ended without an exception
ExitOnlyOnSuccess(path) == [closes |-> path # "exception", suppress |-> FALSE]
\* an exit handler that swallows the exception
ExitSuppress(path) == [closes |-> TRUE, suppress |-> TRUE]

\* __exit__(exc_type, exc_val, exc_tb): self.close(), and the result None is falsy
ExitHandler(path) == [closes |-> TRUE, suppress |-> FALSE]

\* the with block is left by path; e is the exception when path is "exception"
Leave(path, e) ==
    /\ pc = "idle"
    /\ ctx = "in"
    /\ ctx' = "out"
    /\ exitPath' = path
    /\ propagated' = IF path = "exception" /\ ~ExitHandler(path).suppress THEN e ELSE None
    /\ IF ExitHandler(path).closes
         THEN CloseBody
         ELSE UNCHANGED <<clientVars, result, log, closeRun, released>>
    /\ UNCHANGED <<authToken, authReplaced, authOverridden>>
    /\ Called("exit")

\* ------------------------------------------------------------------ the client
Next ==
    \/ \E v \in Verbs, e \in CallEndpoints, rh \in ReqHeaderArgs : Request(v, e, rh)
    \/ \E s \in Statuses : Respond(s)
    \/ \E k \in {"connect_error", "connect_timeout"} : ConnectFail(k)
    \/ \E k \in {"read_timeout", "reset"} : ReadFail(k)
    \/ \E a \in AuthArgs : set_auth_header(a[1], a[2])
    \/ \E a \in SetHeaderArgs : set_header(a[1], a[2])
    \/ close
    \/ Enter
    \/ \E path \in BlockExits, e \in BlockErrors :
         Leave(path, IF path = "exception" THEN e ELSE None)

Spec == Init /\ [][Next]_vars

\* ------------------------------------------------------------------ _build_url alone
\* every base URL and endpoint of the input sets, and one application of _build_url
InitUrl ==
    /\ base_url \in BaseUrls
    /\ endpoint \in Endpoints
    /\ timeout = ConfigTimeout
    /\ headers = DefaultHeaders
    /\ cfg0 = <<base_url, ConfigTimeout, DefaultHeaders>>
    /\ pooled = FALSE
    /\ pc = "idle" /\ verb = None /\ url = <<>>
    /\ reqHeaders = NoHeaders /\ sentHeaders = NoHeaders
    /\ total = Total /\ attempts = 0 /\ delivered = 0 /\ delays = <<>>
    /\ result = NoResult /\ log = <<>> /\ lastStatus = 0
    /\ ctx = "out" /\ exitPath = None /\ propagated = None
    /\ lastOp = "init" /\ closeRun = 0 /\ released = <<>>
    /\ authToken = Absent /\ authReplaced = FALSE /\ authOverridden = FALSE
    /\ LoggerFresh
    /\ PageFresh
    /\ RestFresh

BuildUrl ==
    /\ pc = "idle"
    /\ pc' = "built"
    /\ url' = _build_url(base_url, endpoint)
    /\ UNCHANGED <<clientVars, verb, endpoint, reqHeaders, sentHeaders, total, attempts,
                   delivered, delays, result, log, ctxVars, histVars, loggerVars,
                   pageVars, docVars, restVars, lastStatus>>

NextUrl == BuildUrl

SpecUrl == InitUrl /\ [][NextUrl]_vars

\* C1: for every base_url and every endpoint that does not start with a URL scheme,
\* _build_url returns base_url and endpoint joined by exactly one "/": the trailing
\* slashes of base_url and the leading slashes of endpoint do not show in the result.
C1_OneSeparator ==
    (pc = "built" /\ ~HasScheme(endpoint))
        => url = RStrip(base_url) \o S_slash \o LStrip(endpoint)

\* C2: an endpoint that starts with http:// or https:// is the request URL unchanged,
\* and an endpoint that does not start with a URL scheme (a relative name that begins
\* with the letters "http" included) is resolved against base_url: the request URL
\* starts with base_url and ends with the endpoint without its leading slashes.
C2_AbsoluteOrResolved ==
    pc = "built" =>
        /\ (StartsWith(endpoint, S_http \o S_sep)
              \/ StartsWith(endpoint, S_http \o <<"s">> \o S_sep)) => url = endpoint
        /\ ~HasScheme(endpoint) =>
              /\ StartsWith(url, base_url)
              /\ Len(url) > Len(base_url)
              /\ LET rest == LStrip(endpoint) IN
                   SubSeq(url, Len(url) - Len(rest) + 1, Len(url)) = rest

\* ------------------------------------------------------------------ Logger
DefaultLoggerName == "playwright-demo"
LogLevels == {"info", "debug", "warning", "error", "critical"}

\* if not cls._logger.handlers: cls._logger.addHandler(ch)
AddHandlerOnce(n) == IF n = 0 THEN 1 ELSE n

\* _setup_logger(name): logging.getLogger(name), level DEBUG, one StreamHandler
_setup_logger(name) ==
    /\ _logger' = name
    /\ level' = [level EXCEPT ![name] = "DEBUG"]
    /\ handlers' = [handlers EXCEPT ![name] = AddHandlerOnce(handlers[name])]

\* a get_logger without the guard: every call sets the logger up again
GetLoggerNoGuard(name) ==
    _setup_logger(IF name = None THEN DefaultLoggerName ELSE name)

\* if cls._logger is None: cls._setup_logger(name or "playwright-demo")
GetLoggerBody(name) ==
    IF _logger = None
      THEN _setup_logger(IF name = None THEN DefaultLoggerName ELSE name)
      ELSE UNCHANGED <<_logger, level, handlers>>

Remember(seq, x) ==
    IF Len(seq) < MaxReturned THEN Append(seq, x)
    ELSE <<seq[1]>> \o SubSeq(seq, 3, Len(seq)) \o <<x>>

\* Logger.get_logger(name): return cls._logger
get_logger(name) ==
    /\ GetLoggerBody(name)
    /\ returned' = Remember(returned, _logger')
    /\ UNCHANGED <<emitted, lastLevel>>
    /\ UNCHANGED <<clientVars, callVars, ctxVars, histVars, pageVars, docVars, restVars, lastStatus>>

\* Logger.info/debug/warning/error/critical(message): cls.get_logger().<level>(message)
LogAt(lv) ==
    /\ GetLoggerBody(None)
    /\ returned' = Remember(returned, _logger')
    /\ lastLevel' = lv
    /\ emitted' = IF emitted + handlers'[_logger'] <= MaxEmitted
                    THEN emitted + handlers'[_logger'] ELSE MaxEmitted
    /\ UNCHANGED <<clientVars, callVars, ctxVars, histVars, pageVars, docVars, restVars, lastStatus>>

NextLogger ==
    \/ \E n \in LoggerNames \cup {None} : get_logger(n)
    \/ \E lv \in LogLevels : LogAt(lv)

InitLogger == ClientDefault /\ LoggerFresh /\ PageFresh /\ RestFresh

SpecLogger == InitLogger /\ [][NextLogger]_vars

\* C10: after any sequence of get_logger calls, with or without a name and through
\* the level methods, every call returned the logger the first call returned, and
\* that logger has exactly one handler attached.
C10_OneLoggerOneHandler ==
    returned # <<>> =>
        /\ \A i \in 1..Len(returned) : returned[i] = returned[1] /\ returned[i] # None
        /\ _logger = returned[1]
        /\ handlers[_logger] = 1
        /\ \A n \in LoggerNames \ {_logger} : handlers[n] = 0

C10_Witness ==
    /\ Len(returned) = MaxReturned
    /\ _logger = "other"
    /\ emitted >= 2

\* ------------------------------------------------------------------ BasePage
NoError == None

\* page.is_visible(selector): a closed page and an unparsable selector fail; a
\* selector that matches nothing is not visible
EngineIsVisible(open, d, sel) ==
    IF ~open THEN [raised |-> "TargetClosedError", value |-> FALSE]
    ELSE IF sel \notin ValidSelectors THEN [raised |-> "Error", value |-> FALSE]
    ELSE [raised |-> NoError, value |-> d[sel] \in {"disabled", "enabled"}]

\* page.is_enabled(selector): as above, and a selector that matches nothing times out
EngineIsEnabled(open, d, sel) ==
    IF ~open THEN [raised |-> "TargetClosedError", value |-> FALSE]
    ELSE IF sel \notin ValidSelectors THEN [raised |-> "Error", value |-> FALSE]
    ELSE IF d[sel] = "absent" THEN [raised |-> "TimeoutError", value |-> FALSE]
    ELSE [raised |-> NoError, value |-> d[sel] = "enabled"]

\* the call without the try block
Unguarded(e, what) ==
    [value |-> e.value, raised |-> e.raised, log |-> <<>>]

\* try: return <engine call> / except Exception as e: logger.warning(...); return False
Guarded(e, what) ==
    IF e.raised # NoError
      THEN [value |-> FALSE, raised |-> NoError, log |-> <<Rec("WARNING", what)>>]
      ELSE [value |-> e.value, raised |-> NoError, log |-> <<>>]

PageCall(op, sel, r) ==
    /\ pageRet' = [op |-> op, sel |-> sel, value |-> r.value, raised |-> r.raised]
    /\ pageLog' = r.log
    /\ UNCHANGED <<pageOpen, dom>>
    /\ UNCHANGED <<clientVars, callVars, ctxVars, histVars, loggerVars, docVars, restVars, lastStatus>>

is_visible(sel) ==
    PageCall("is_visible", sel, Guarded(EngineIsVisible(pageOpen, dom, sel), "visibility"))

is_enabled(sel) ==
    PageCall("is_enabled", sel, Guarded(EngineIsEnabled(pageOpen, dom, sel), "enabled"))

\* the page shows other content: navigation, reload, scripts of the page
DomChanges(sel, st) ==
    /\ pageOpen
    /\ dom' = [dom EXCEPT ![sel] = st]
    /\ pageRet' = [op |-> None, sel |-> None, value |-> FALSE, raised |-> NoError]
    /\ pageLog' = <<>>
    /\ UNCHANGED pageOpen
    /\ UNCHANGED <<clientVars, callVars, ctxVars, histVars, loggerVars, docVars, restVars, lastStatus>>

\* BasePage.close(): logger.info("Closing page"); self.page.close()
page_close ==
    /\ pageOpen' = FALSE
    /\ pageRet' = [op |-> "close", sel |-> None, value |-> FALSE, raised |-> NoError]
    /\ pageLog' = <<Rec("INFO", "closing")>>
    /\ UNCHANGED dom
    /\ UNCHANGED <<clientVars, callVars, ctxVars, histVars, loggerVars, docVars, restVars, lastStatus>>

NextPage ==
    \/ \E sel \in Selectors : is_visible(sel)
    \/ \E sel \in Selectors : is_enabled(sel)
    \/ \E sel \in ValidSelectors, st \in ElementStates : DomChanges(sel, st)
    \/ page_close

InitPage == ClientDefault /\ LoggerFresh /\ PageFresh /\ RestFresh

SpecPage == InitPage /\ [][NextPage]_vars

EngineOf(r) ==
    IF r.op = "is_visible" THEN EngineIsVisible(pageOpen, dom, r.sel)
    ELSE EngineIsEnabled(pageOpen, dom, r.sel)

\* C7: is_visible and is_enabled never raise: for every selector and every state of
\* the page handle, when the engine call fails the method returns false and logs a
\* warning, and otherwise it returns the engine's result and logs nothing.
C7_NeverRaises ==
    pageRet.op \in {"is_visible", "is_enabled"} =>
        /\ pageRet.raised = NoError
        /\ EngineOf(pageRet).raised # NoError =>
              /\ pageRet.value = FALSE
              /\ Len(pageLog) = 1 /\ pageLog[1].level = "WARNING"
        /\ EngineOf(pageRet).raised = NoError =>
              /\ pageRet.value = EngineOf(pageRet).value
              /\ pageLog = <<>>

\* is_enabled on a closed page: the engine call fails, and false comes back
C7_Witness ==
    /\ pageRet.op = "is_enabled"
    /\ ~pageOpen
    /\ EngineOf(pageRet).raised = "TargetClosedError"
    /\ pageRet.value = FALSE

\* ------------------------------------------------------------------ claims on the client
AuthSent == sentHeaders["Authorization"]

\* C3 as stated: after set_auth_header(token, header_type), every later request
\* carries Authorization: "<header_type> <token>" of the last set_auth_header.
C3_AuthOnEveryRequest ==
    (lastOp = "request" /\ authToken # Absent) => AuthSent = authToken

\* C3 amended: after set_auth_header(token, header_type) the session's Authorization
\* header is "<header_type> <token>" of the last set_auth_header, and every request
\* that passes no Authorization header of its own carries it, until set_auth_header
\* or set_header("Authorization", ...) is called again.
C3_AuthUnlessOverridden ==
    (authToken # Absent /\ ~authOverridden) =>
        /\ headers["Authorization"] = authToken
        /\ (lastOp = "request" /\ reqHeaders["Authorization"] = Absent)
              => AuthSent = authToken

\* a request sent after a second set_auth_header replaced the token of the first
C3_Witness ==
    /\ lastOp = "request" /\ pc = "idle" /\ result.kind = "response"
    /\ authReplaced /\ ~authOverridden
    /\ reqHeaders["Authorization"] = Absent
    /\ AuthSent = authToken

Increasing(seq) == \A i, j \in 1..Len(seq) : i < j => seq[i] < seq[j]

C5_NoRetryForPost ==
    /\ verb \in {"POST", "PATCH"} =>
          /\ delivered <= 1
          /\ delivered = 1 => pc = "idle"
          /\ result.kind = "response" => delivered = 1
          /\ result.exc # "RetryError"
    /\ lastOp = "request" => <<base_url, timeout, headers>> = cfg0

\* a POST answered 503: the response is returned, after one delivery
C5_Witness ==
    /\ verb = "POST" /\ pc = "idle"
    /\ result.kind = "response" /\ result.status = 503
    /\ delivered = 1

\* C6: a call that ends without a response ends in an error; when the cause is a
\* connection error or a timeout the error is a RequestException of the transport
\* kind carrying that cause, the last record logged is the error, the wrapper sent
\* nothing after the session gave up, and base_url, timeout and headers are unchanged.
C6_TransportErrorPropagates ==
    (lastOp = "request" /\ pc = "idle" /\ result.kind # "response") =>
        /\ result.kind = "error"
        /\ log[Len(log)] = Rec("ERROR", "failed")
        /\ <<base_url, timeout, headers>> = cfg0
        /\ attempts <= Total + 1
        /\ result.cause \in TransportCauses =>
              /\ result.exc \in TransportErrors
              /\ result.status = 0
              /\ (verb \notin AllowedMethods /\ result.cause \in {"read_timeout", "reset"})
                    => delivered = 1

\* a POST whose response never came: ReadTimeout, after one delivery
C6_Witness ==
    /\ lastOp = "request" /\ pc = "idle"
    /\ verb = "POST"
    /\ result = Raised("ReadTimeout", "read_timeout")
    /\ delivered = 1

\* C8: after two or more close() calls in a row, the explicit ones and the one the
\* scoped form makes on exit alike, the client is as the first close() left it, the
\* pools are released, and no close() raised.
C8_CloseIdempotent ==
    closeRun >= 1 =>
        /\ <<pooled, base_url, timeout, headers>> = released
        /\ ~pooled
        /\ result.kind # "error"

\* close() inside the with block, then the close() of the exit
C8_Witness ==
    /\ closeRun >= 2
    /\ lastOp = "exit"

\* C9: however the with block is left, close() has run when the statement is over;
\* an exception raised in the block reaches the caller, and nothing reaches the
\* caller when the block ended normally or by a return.
C9_ExitAlwaysCloses ==
    lastOp = "exit" =>
        /\ ctx = "out"
        /\ closeRun >= 1 /\ ~pooled
        /\ log = <<Rec("INFO", "closing")>>
        /\ exitPath \in BlockExits
        /\ exitPath = "exception" => propagated \in BlockErrors
        /\ exitPath # "exception" => propagated = None

\* the block raised ValueError: the session is closed and the caller sees ValueError
C9_Witness ==
    /\ lastOp = "exit"
    /\ exitPath = "exception" /\ propagated = "ValueError"
    /\ closeRun = 1 /\ ~pooled

HeadersKeptBut(k) == \A j \in HeaderNames \ {k} : headers'[j] = headers[j]

\* C16: no operation of the client writes base_url or timeout; set_header(key, value)
\* sets the header key to value and set_auth_header sets Authorization, and each
\* leaves every other header of the session as it was; a request (with or without
\* headers of its own), each of its attempts, close and the scoped form leave the
\* session's header set as it was.
C16_ConfigStable ==
    [][ /\ base_url' = base_url
        /\ timeout' = timeout
        /\ IF lastOp' = "set_header"
             THEN \E a \in SetHeaderArgs : headers'[a[1]] = a[2] /\ HeadersKeptBut(a[1])
             ELSE IF lastOp' = "set_auth_header"
                    THEN /\ headers'["Authorization"] = authToken'
                         /\ HeadersKeptBut("Authorization")
                    ELSE headers' = headers ]_vars

\* a request with a header of its own has returned after set_header added a header:
\* the session still holds the added header and its defaults, and sent both
C16_Witness ==
    /\ lastOp = "request" /\ pc = "idle" /\ result.kind = "response"
    /\ reqHeaders["X-Custom-Header"] = <<"test-value">>
    /\ headers["X-Custom-Header"] = <<"v2">>
    /\ headers["User-Agent"] = DefaultHeaders["User-Agent"]
    /\ sentHeaders["X-Custom-Header"] = <<"test-value">>

\* ------------------------------------------------------------------ the constructor alone
\* arguments of APIClient(base_url, timeout, headers): each of the first two omitted,
\* falsy or not; headers omitted or empty (NoHeaders), or holding the keys given
BaseUrlArgs == {Omitted(<<>>), Given(<<>>), Given(UrlB), Given(ConfigBaseUrl)}
TimeoutArgs == {Omitted(0), Given(0), Given(5), Given(ConfigTimeout)}
HeaderArgs ==
    { NoHeaders,
      [NoHeaders EXCEPT !["Accept"] = <<"text/xml">>],
      [NoHeaders EXCEPT !["X-Custom-Header"] = <<"test-value">>],
      [NoHeaders EXCEPT !["User-Agent"] = <<"ua">>, !["Authorization"] = <<"Bearer", "abc">>],
      [NoHeaders EXCEPT !["User-Agent"] = <<"ua">>, !["Accept"] = <<"text/xml">>] }

\* before __init__ has run: no attribute is set
InitNew ==
    /\ ctorArgs \in BaseUrlArgs \X TimeoutArgs \X HeaderArgs
    /\ clock = [start |-> Epoch, ticks |-> 0]
    /\ fnCalls = <<>>
    /\ FixturesFresh
    /\ ThreadsFresh
    /\ base_url = <<>> /\ timeout = 0 /\ headers = NoHeaders
    /\ cfg0 = <<base_url, timeout, headers>>
    /\ pooled = FALSE
    /\ pc = "new" /\ verb = None /\ endpoint = <<>> /\ url = <<>>
    /\ reqHeaders = NoHeaders /\ sentHeaders = NoHeaders
    /\ total = Total /\ attempts = 0 /\ delivered = 0 /\ delays = <<>>
    /\ result = NoResult /\ log = <<>> /\ lastStatus = 0
    /\ ctx = "out" /\ exitPath = None /\ propagated = None
    /\ lastOp = "init" /\ closeRun = 0 /\ released = <<>>
    /\ authToken = Absent /\ authReplaced = FALSE /\ authOverridden = FALSE
    /\ LoggerFresh
    /\ PageFresh

\* APIClient(base_url, timeout, headers)
__init__ ==
    /\ pc = "new"
    /\ pc' = "idle"
    /\ base_url' = InitBaseUrl(ctorArgs[1])
    /\ timeout' = InitTimeout(ctorArgs[2])
    /\ headers' = InitHeaders(ctorArgs[3])
    /\ cfg0' = <<base_url', timeout', headers'>>
    /\ UNCHANGED <<pooled, verb, endpoint, url, reqHeaders, sentHeaders, total, attempts,
                   delivered, delays, result, log, ctxVars, lastOp, closeRun, released,
                   authToken, authReplaced, authOverridden, loggerVars, pageVars,
                   docVars, restVars, lastStatus>>

NextInit == __init__

SpecInit == InitNew /\ [][NextInit]_vars

\* C13: the constructed client holds the base_url and the timeout it was given, whatever
\* their value (an empty base_url and a zero timeout included), and the configured ones
\* only when the argument was omitted; its headers are the two defaults, each replaced
\* by the supplied header of the same key, plus the other supplied headers.
C13_SuppliedValuesUsed ==
    (pc = "idle" /\ ctorArgs # <<>>) =>
        /\ base_url = IF ctorArgs[1].given THEN ctorArgs[1].val ELSE ConfigBaseUrl
        /\ timeout = IF ctorArgs[2].given THEN ctorArgs[2].val ELSE ConfigTimeout
        /\ \A k \in HeaderNames :
             headers[k] = IF ctorArgs[3][k] # Absent THEN ctorArgs[3][k]
                                                     ELSE DefaultHeaders[k]

\* ------------------------------------------------------------------ screenshots and links
MaxElems == 3       \* elements of a document
Filenames == {"a.png", "out/b.png"}
Hrefs == {"/x", "/y"}
\* an element: its tag and its href attribute, None when it has none
Elem(t, h) == [tag |-> t, href |-> h]
Elems == {Elem("p", None)} \cup {Elem("a", h) : h \in Hrefs \cup {None}}
Docs == UNION {[1..n -> Elems] : n \in 0..MaxElems}

\* the PNG image of what the page shows
Image(d) == IF d = <<>> THEN "PNG of a blank page" ELSE "PNG of the document"

\* page.screenshot(path=filename): writes the image to path and returns the image
EngineScreenshot(open, d, filename) ==
    IF ~open
      THEN [raised |-> "TargetClosedError", returned |-> NoValue, written |-> None]
      ELSE [raised |-> NoError, returned |-> Bytes(Image(d)), written |-> filename]

\* logger.info(...); return self.page.screenshot(path=filename)
take_screenshot(filename) ==
    LET r == EngineScreenshot(pageOpen, doc, filename) IN
    /\ shot' = [filename |-> filename, returned |-> r.returned, written |-> r.written,
                raised |-> r.raised]
    /\ pageLog' = <<Rec("INFO", "screenshot")>>
    /\ UNCHANGED <<pageOpen, dom, pageRet, doc, linksRet>>
    /\ UNCHANGED <<clientVars, callVars, ctxVars, histVars, loggerVars, restVars, lastStatus>>

RECURSIVE Matching(_, _)
\* page.locator(selector): the elements with that tag, in document order
Matching(d, t) ==
    IF d = <<>> THEN <<>>
    ELSE IF Head(d).tag = t THEN <<Head(d)>> \o Matching(Tail(d), t)
    ELSE Matching(Tail(d), t)

LINK == "a"
Count(loc) == Len(loc)                  \* locator.count()
Nth(loc, i) == loc[i + 1]               \* locator.nth(i), i from 0
GetAttribute(el, name) == el[name]      \* get_attribute("href")
Range(n) == 0..(n - 1)                  \* range(n)

\* a slip: the last anchor is left out (range(locator.count() - 1))
AllLinksButLast(loc) ==
    [j \in 1..(Count(loc) - 1) |-> GetAttribute(Nth(loc, j - 1), "href")]

\* [locator.nth(i).get_attribute("href") for i in range(locator.count())]
AllLinks(loc) ==
    [j \in {i + 1 : i \in Range(Count(loc))} |-> GetAttribute(Nth(loc, j - 1), "href")]

\* logger.debug(...); locator = self.page.locator(self.LINK); return [...]
get_all_links ==
    /\ linksRet' = IF pageOpen
                     THEN [called |-> TRUE, value |-> AllLinks(Matching(doc, LINK)),
                           raised |-> NoError]
                     ELSE [called |-> TRUE, value |-> <<>>, raised |-> "TargetClosedError"]
    /\ pageLog' = <<Rec("DEBUG", "links")>>
    /\ UNCHANGED <<pageOpen, dom, pageRet, doc, shot>>
    /\ UNCHANGED <<clientVars, callVars, ctxVars, histVars, loggerVars, restVars, lastStatus>>

\* the page shows another document: earlier results describe the old one
DocChanges(d) ==
    /\ pageOpen
    /\ d # doc
    /\ doc' = d
    /\ linksRet' = NoLinks
    /\ shot' = NoShot
    /\ pageLog' = <<>>
    /\ UNCHANGED <<pageOpen, dom, pageRet>>
    /\ UNCHANGED <<clientVars, callVars, ctxVars, histVars, loggerVars, restVars, lastStatus>>

NextDoc ==
    \/ \E f \in Filenames : take_screenshot(f)
    \/ get_all_links
    \/ \E d \in Docs : DocChanges(d)
    \/ page_close

SpecDoc == InitPage /\ [][NextDoc]_vars

\* C11: a screenshot that is taken writes the image to filename and returns the path
\* it wrote to, the filename argument.
C11_ReturnsFilename ==
    (shot.filename # None /\ shot.raised = NoError) =>
        /\ shot.written = shot.filename
        /\ shot.returned = Str(shot.filename)

AnchorsOf(d) == SelectSeq(d, LAMBDA el : el.tag = "a")

\* C17: get_all_links returns one entry for each anchor of the document, in document
\* order: entry i is the href of the i-th anchor, None where the anchor has no href;
\* the list is as long as the document has anchors, and empty when it has none.
C17_OneEntryPerAnchor ==
    (linksRet.called /\ linksRet.raised = NoError) =>
        LET anchors == AnchorsOf(doc) IN
        /\ Len(linksRet.value) = Len(anchors)
        /\ \A i \in 1..Len(anchors) : linksRet.value[i] = anchors[i].href
        /\ (anchors = <<>> => linksRet.value = <<>>)

\* three elements: an anchor without href, a paragraph, an anchor with href
C17_Witness ==
    /\ linksRet.called /\ linksRet.raised = NoError
    /\ Len(doc) = 3 /\ doc[1] = Elem("a", None) /\ doc[2].tag = "p" /\ doc[3] = Elem("a", "/y")
    /\ linksRet.value = <<None, "/y">>

\* ------------------------------------------------------------------ Helpers.generate_unique_filename
MaxTicks == 4       \* half seconds the clock runs on
StartTimes == { Time(2024, 12, 31, 23, 59, 58),
                Time(2024, 2, 28, 23, 59, 59),
                Time(2025, 9, 9, 9, 9, 9) }
Prefixes == { <<>>, <<"s">>, <<"a", "_">> }
Extensions == { <<>>, <<".", "p">> }

IsLeap(Y) == (Y % 4 = 0 /\ Y % 100 # 0) \/ Y % 400 = 0
DaysIn(Y, M) == IF M = 2 THEN (IF IsLeap(Y) THEN 29 ELSE 28)
                ELSE IF M \in {4, 6, 9, 11} THEN 30 ELSE 31

\* the second after t
NextSecond(t) ==
    IF t.s < 59 THEN [t EXCEPT !.s = t.s + 1]
    ELSE IF t.m < 59 THEN [t EXCEPT !.s = 0, !.m = t.m + 1]
    ELSE IF t.h < 23 THEN [t EXCEPT !.s = 0, !.m = 0, !.h = t.h + 1]
    ELSE IF t.D < DaysIn(t.Y, t.M) THEN Time(t.Y, t.M, t.D + 1, 0, 0, 0)
    ELSE IF t.M < 12 THEN Time(t.Y, t.M + 1, 1, 0, 0, 0)
    ELSE Time(t.Y + 1, 1, 1, 0, 0, 0)

RECURSIVE After(_, _)
After(t, n) == IF n = 0 THEN t ELSE After(NextSecond(t), n - 1)

\* datetime.now(), to the second
Now(c) == After(c.start, c.ticks \div 2)

DigitChars == <<"0", "1", "2", "3", "4", "5", "6", "7", "8", "9">>
\* a number in w decimal digits, zero padded (%Y, %m, %d, %H, %M, %S)
Pad(n, w) == [i \in 1..w |-> DigitChars[((n \div (10 ^ (w - i))) % 10) + 1]]

\* strftime("%Y%m%d_%H%M%S")
StrFTime(t) ==
    Pad(t.Y, 4) \o Pad(t.M, 2) \o Pad(t.D, 2) \o <<"_">> \o
    Pad(t.h, 2) \o Pad(t.m, 2) \o Pad(t.s, 2)

\* Helpers.get_timestamp()
get_timestamp(c) == StrFTime(Now(c))

\* a slip: the underscore is written for an empty prefix too
FileNameUnderscore(prefix, timestamp, extension) ==
    prefix \o <<"_">> \o timestamp \o extension

\* f"{prefix}_{timestamp}{extension}" if prefix else f"{timestamp}{extension}"
FileName(prefix, timestamp, extension) ==
    IF prefix # <<>> THEN prefix \o <<"_">> \o timestamp \o extension
                     ELSE timestamp \o extension

KeepTwo(q, x) == IF Len(q) < 2 THEN Append(q, x) ELSE <<q[2], x>>

generate_unique_filename(prefix, extension) ==
    /\ fnCalls' = KeepTwo(fnCalls, [prefix |-> prefix, extension |-> extension,
                                    at |-> Now(clock), half |-> clock.ticks,
                                    value |-> FileName(prefix, get_timestamp(clock),
                                                       extension)])
    /\ UNCHANGED <<clientVars, callVars, ctxVars, histVars, loggerVars, pageVars, docVars,
                   lastStatus, ctorArgs, clock, fixVars, threadVars>>

\* half a second passes
Tick ==
    /\ clock.ticks < MaxTicks
    /\ clock' = [clock EXCEPT !.ticks = clock.ticks + 1]
    /\ UNCHANGED <<clientVars, callVars, ctxVars, histVars, loggerVars, pageVars, docVars,
                   lastStatus, ctorArgs, fnCalls, fixVars, threadVars>>

InitHelpers ==
    /\ ClientDefault /\ LoggerFresh /\ PageFresh
    /\ ctorArgs = <<>>
    /\ clock \in [start : StartTimes, ticks : {0}]
    /\ fnCalls = <<>>
    /\ FixturesFresh
    /\ ThreadsFresh

NextHelpers ==
    \/ \E p \in Prefixes, e \in Extensions : generate_unique_filename(p, e)
    \/ Tick

SpecHelpers == InitHelpers /\ [][NextHelpers]_vars

\* the number a sequence of decimal digits writes
DigitVal(ch) == CHOOSE d \in 0..9 : DigitChars[d + 1] = ch
RECURSIVE Num(_)
Num(q) == IF q = <<>> THEN 0 ELSE 10 * Num(SubSeq(q, 1, Len(q) - 1)) + DigitVal(q[Len(q)])

\* q is the time t written as YYYYMMDD_HHMMSS
IsStampOf(q, t) ==
    /\ Len(q) = 15
    /\ \A i \in (1..15) \ {9} : q[i] \in {DigitChars[d] : d \in 1..10}
    /\ q[9] = "_"
    /\ Num(SubSeq(q, 1, 4)) = t.Y /\ Num(SubSeq(q, 5, 6)) = t.M /\ Num(SubSeq(q, 7, 8)) = t.D
    /\ Num(SubSeq(q, 10, 11)) = t.h /\ Num(SubSeq(q, 12, 13)) = t.m
    /\ Num(SubSeq(q, 14, 15)) = t.s

\* where the timestamp starts in a name made with this prefix
StampOffset(prefix) == IF prefix = <<>> THEN 0 ELSE Len(prefix) + 1

MaxTests == 2       \* tests run one after the other
Chains == {"async", "sync"}
Position(r) == CHOOSE i \in 1..Len(Chain) : Chain[i] = r

\* what the engine does on r.close(): a closed r stays closed; an open r closes, and
\* whatever was made from it and is still open closes with it, first
EngineClose(rs, r) ==
    LET below == {Chain[i] : i \in (Position(r) + 1)..Len(Chain)}
        dragged == {d \in below : rs[d] = "open"}
        ordered == SelectSeq(<<"page", "context">>, LAMBDA d : d \in dragged)
    IN IF rs[r] # "open"
         THEN [res |-> rs, released |-> <<>>]
         ELSE [res |-> [x \in Resources |-> IF x = r \/ x \in dragged THEN "closed"
                                                                     ELSE rs[x]],
               released |-> [i \in 1..Len(ordered) |-> [res |-> ordered[i], by |-> "parent"]]
                            \o <<[res |-> r, by |-> "fixture"]>>]

\* finalizers that run in the order the fixtures were set up
FirstFinalizer(stack) == stack[1]

\* the test runner tears fixtures down in the reverse of the order it set them up
NextFinalizer(stack) == stack[Len(stack)]

Without(q, r) == SelectSeq(q, LAMBDA x : x # r)

\* a test that requests the fixture want of a chain starts
StartTest(chain, want) ==
    /\ fx.phase \in {"idle", "done"}
    /\ fx.tests < MaxTests
    /\ fx' = [chain |-> chain, want |-> want, phase |-> "setup", outcome |-> None,
              stack |-> <<>>, log |-> None, tests |-> fx.tests + 1]
    /\ res' = [r \in Resources |-> "none"]
    /\ closeCalls' = [r \in Resources |-> 0]
    /\ order' = <<>>
    /\ UNCHANGED <<clientVars, callVars, ctxVars, histVars, loggerVars, pageVars, docVars,
                   lastStatus, ctorArgs, clock, fnCalls, threadVars>>

\* the code of the next fixture up to its yield: launch / new_context / new_page,
\* which succeeds or raises
SetUp(ok) ==
    LET r == Chain[Len(fx.stack) + 1] IN
    /\ fx.phase = "setup"
    /\ IF ok
         THEN /\ res' = [res EXCEPT ![r] = "open"]
              /\ fx' = [fx EXCEPT !.stack = Append(fx.stack, r),
                                  !.phase = IF r = fx.want THEN "body" ELSE "setup",
                                  !.log = IF r = "browser" THEN Rec("INFO", "starting")
                                                           ELSE Rec("DEBUG", "creating")]
         ELSE /\ res' = res
              /\ fx' = [fx EXCEPT !.outcome = "error",
                                  !.phase = IF fx.stack = <<>> THEN "done" ELSE "teardown",
                                  !.log = IF r = "browser" THEN Rec("INFO", "starting")
                                                           ELSE Rec("DEBUG", "creating")]
    /\ UNCHANGED <<closeCalls, order>>
    /\ UNCHANGED <<clientVars, callVars, ctxVars, histVars, loggerVars, pageVars, docVars,
                   lastStatus, ctorArgs, clock, fnCalls, threadVars>>

\* the test body runs and passes or fails
TestBody(outcome) ==
    /\ fx.phase = "body"
    /\ fx' = [fx EXCEPT !.outcome = outcome, !.phase = "teardown"]
    /\ UNCHANGED <<res, closeCalls, order>>
    /\ UNCHANGED <<clientVars, callVars, ctxVars, histVars, loggerVars, pageVars, docVars,
                   lastStatus, ctorArgs, clock, fnCalls, threadVars>>

\* the code of a fixture after its yield: logger.debug("Closing ..."); <resource>.close()
TearDown ==
    LET r == NextFinalizer(fx.stack)
        c == EngineClose(res, r)
        left == Without(fx.stack, r)
    IN /\ fx.phase = "teardown"
       /\ res' = c.res
       /\ closeCalls' = [closeCalls EXCEPT ![r] = closeCalls[r] + 1]
       /\ order' = order \o c.released
       /\ fx' = [fx EXCEPT !.stack = left,
                           !.phase = IF left = <<>> THEN "done" ELSE "teardown",
                           !.log = IF r = "browser" THEN Rec("INFO", "closing")
                                                    ELSE Rec("DEBUG", "closing")]
       /\ UNCHANGED <<clientVars, callVars, ctxVars, histVars, loggerVars, pageVars,
                      docVars, lastStatus, ctorArgs, clock, fnCalls, threadVars>>

InitFixtures ==
    /\ ClientDefault /\ LoggerFresh /\ PageFresh /\ RestFresh

NextFixtures ==
    \/ \E ch \in Chains, want \in Resources : StartTest(ch, want)
    \/ \E ok \in BOOLEAN : SetUp(ok)
    \/ \E o \in {"passed", "failed"} : TestBody(o)
    \/ TearDown

SpecFixtures == InitFixtures /\ [][NextFixtures]_vars

ReleasedOf(q) == [i \in 1..Len(q) |-> q[i].res]
Created == {r \in Resources : res[r] # "none"}

\* C15: in both fixture chains, whatever the outcome of the test, what the fixtures
\* created is released by its own fixture, once, after the test body: the page before
\* the context before the browser, nothing closed while something made from it is
\* open, and nothing open once the test is over.
C15_ReleasedOnceInOrder ==
    /\ \A r \in Resources : closeCalls[r] <= 1
    /\ \A i \in 1..Len(order) : order[i].by = "fixture"
    /\ \A i, j \in 1..Len(order) : i < j => Position(order[i].res) > Position(order[j].res)
    /\ fx.phase \in {"setup", "body"} => (order = <<>> /\ \A r \in Resources : res[r] # "closed")
    /\ res["context"] = "closed" => res["page"] # "open"
    /\ res["browser"] = "closed" => (res["context"] # "open" /\ res["page"] # "open")
    /\ fx.phase = "done" =>
         /\ \A r \in Resources : res[r] # "open"
         /\ \A r \in Created : closeCalls[r] = 1
         /\ {order[i].res : i \in 1..Len(order)} = Created
         /\ Len(order) = Cardinality(Created)

\* a failed test of the sync chain that used the page fixture is over
C15_Witness ==
    /\ fx.phase = "done" /\ fx.chain = "sync" /\ fx.outcome = "failed"
    /\ ReleasedOf(order) = <<"page", "context", "browser">>
    /\ \A r \in Resources : res[r] = "closed" /\ closeCalls[r] = 1

\* ------------------------------------------------------------------ get_logger from several threads
\* the rest of the state while a thread takes a step in logger.py
ThreadFrame ==
    <<clientVars, callVars, ctxVars, histVars, pageVars, docVars, lastStatus, ctorArgs,
      clock, fnCalls, fixVars, returned, emitted, lastLevel, tname, tobs>>

Goto(t, line) == tpc' = [tpc EXCEPT ![t] = line]

\* line 13: if cls._logger is None
T13(t) ==
    /\ tpc[t] = "l13"
    /\ Goto(t, IF _logger = None THEN "l20" ELSE "l15")
    /\ UNCHANGED <<_logger, level, handlers, ThreadFrame>>

\* line 20: cls._logger = logging.getLogger(name or "playwright-demo")
T20(t) ==
    /\ tpc[t] = "l20"
    /\ _logger' = IF tname[t] = None THEN DefaultLoggerName ELSE tname[t]
    /\ Goto(t, "l21")
    /\ UNCHANGED <<level, handlers, ThreadFrame>>

\* line 21: cls._logger.setLevel(logging.DEBUG); lines 24-32 build the handler
T21(t) ==
    /\ tpc[t] = "l21"
    /\ level' = [level EXCEPT ![_logger] = "DEBUG"]
    /\ Goto(t, "l35")
    /\ UNCHANGED <<_logger, handlers, ThreadFrame>>

\* line 35: if not cls._logger.handlers
T35(t) ==
    /\ tpc[t] = "l35"
    /\ Goto(t, IF handlers[_logger] = 0 THEN "l36" ELSE "l15")
    /\ UNCHANGED <<_logger, level, handlers, ThreadFrame>>

\* line 36: cls._logger.addHandler(ch), ch being this thread's new handler
T36(t) ==
    /\ tpc[t] = "l36"
    /\ handlers' = [handlers EXCEPT ![_logger] = handlers[_logger] + 1]
    /\ Goto(t, "l15")
    /\ UNCHANGED <<_logger, level, ThreadFrame>>

\* line 15: return cls._logger
T15(t) ==
    /\ tpc[t] = "l15"
    /\ tobs' = [tobs EXCEPT ![t] = [logger |-> _logger, level |-> level[_logger],
                                    handlers |-> handlers[_logger]]]
    /\ Goto(t, "done")
    /\ UNCHANGED <<_logger, level, handlers, clientVars, callVars, ctxVars, histVars,
                   pageVars, docVars, lastStatus, ctorArgs, clock, fnCalls, fixVars,
                   returned, emitted, lastLevel, tname>>

\* every thread is about to make the first get_logger call of the process
InitThreads ==
    /\ ClientDefault /\ LoggerFresh /\ PageFresh
    /\ ctorArgs = <<>>
    /\ clock = [start |-> Epoch, ticks |-> 0]
    /\ fnCalls = <<>>
    /\ FixturesFresh
    /\ tpc = [t \in Threads |-> "l13"]
    /\ tname \in [Threads -> {None, "api", "other"}]
    /\ tobs = [t \in Threads |-> NoObs]

NextThreads ==
    \E t \in Threads : T13(t) \/ T20(t) \/ T21(t) \/ T35(t) \/ T36(t) \/ T15(t)

SpecThreads == InitThreads /\ [][NextThreads]_vars

\* C18: whatever the interleaving of the threads' first get_logger calls, each caller
\* receives a logger that already has its level set to DEBUG and its console handler
\* attached, and no logger ever gets a second handler.
C18_ConfiguredOnce ==
    /\ \A t \in Threads :
         tpc[t] = "done" => (tobs[t].level = "DEBUG" /\ tobs[t].handlers >= 1)
    /\ \A n \in LoggerNames : handlers[n] <= 1

====
